---------------------------- MODULE Spec2Model ----------------------------
(***************************************************************************)
(* Model of list_prs.py: the weekly pull-request report of the             *)
(* kakao-tech-campus-3rd-step3 team repositories.                          *)
(*                                                                         *)
(* Text is modelled as sequences of one-character strings, so that         *)
(* strftime / strptime / fromisoformat / str.replace are real conversions. *)
(* A calendar date is a triple <<year, month, day>>; a datetime is a       *)
(* record with the fields of datetime.datetime that the script reads.      *)
(***************************************************************************)
EXTENDS Integers, Sequences, FiniteSets, TLC

(***************************************************************************)
(* datetime arithmetic (the proleptic Gregorian ordinal of datetime.date)  *)
(***************************************************************************)
DAYS_IN_MONTH == <<31, 28, 31, 30, 31, 30, 31, 31, 30, 31, 30, 31>>

is_leap(y) == (y % 4 = 0) /\ ((y % 100 # 0) \/ (y % 400 = 0))

days_in_month(y, m) == IF m = 2 /\ is_leap(y) THEN 29 ELSE DAYS_IN_MONTH[m]

days_before_year(y) ==
    (y - 1) * 365 + ((y - 1) \div 4) - ((y - 1) \div 100) + ((y - 1) \div 400)

RECURSIVE days_before_month(_, _)
days_before_month(y, m) ==
    IF m = 1 THEN 0 ELSE days_before_month(y, m - 1) + days_in_month(y, m - 1)

\* date.toordinal(): 0001-01-01 is day 1
toordinal(d) == days_before_year(d[1]) + days_before_month(d[1], d[2]) + d[3]

\* date.fromordinal(n), as datetime._ord2ymd computes it
fromordinal(n) ==
    LET n0   == n - 1
        n400 == n0 \div 146097
        r400 == n0 % 146097
        n100 == r400 \div 36524
        r100 == r400 % 36524
        n4   == r100 \div 1461
        r4   == r100 % 1461
        n1   == r4 \div 365
        r1   == r4 % 365
        year == n400 * 400 + 1 + n100 * 100 + n4 * 4 + n1
    IN  IF n1 = 4 \/ n100 = 4
        THEN <<year - 1, 12, 31>>
        ELSE LET month == CHOOSE m \in 1..12 :
                              /\ days_before_month(year, m) <= r1
                              /\ r1 < days_before_month(year, m) + days_in_month(year, m)
             IN  <<year, month, r1 - days_before_month(year, month) + 1>>

\* date.weekday(): Monday is 0, Friday is 4, Sunday is 6
weekday(d) == (toordinal(d) + 6) % 7

\* datetime - timedelta(days=n): the date moves, the time of day stays
minus_days(dt, n) ==
    LET d == fromordinal(toordinal(<<dt.year, dt.month, dt.day>>) - n)
    IN  [dt EXCEPT !.year = d[1], !.month = d[2], !.day = d[3]]

\* datetime.date()
date_of(dt) == <<dt.year, dt.month, dt.day>>

\* date >= date (lexicographic on year, month, day)
date_ge(a, b) ==
    \/ a[1] > b[1]
    \/ a[1] = b[1] /\ a[2] > b[2]
    \/ a[1] = b[1] /\ a[2] = b[2] /\ a[3] >= b[3]

(***************************************************************************)
(* Text conversions                                                        *)
(***************************************************************************)
DIGITS == <<"0", "1", "2", "3", "4", "5", "6", "7", "8", "9">>

digit(k) == DIGITS[k + 1]

digit_value(c) == CHOOSE k \in 0..9 : DIGITS[k + 1] = c

\* %m, %d, %H, %M, %S: two digits, zero padded
pad2(n) == <<digit(n \div 10), digit(n % 10)>>

\* %Y: four digits, zero padded
pad4(n) == <<digit(n \div 1000), digit((n \div 100) % 10),
             digit((n \div 10) % 10), digit(n % 10)>>

\* int() of a run of digits
RECURSIVE parse_int(_)
parse_int(s) ==
    IF s = <<>> THEN 0
    ELSE parse_int(SubSeq(s, 1, Len(s) - 1)) * 10 + digit_value(s[Len(s)])

\* strftime('%Y-%m-%d')
strftime_ymd(dt) == pad4(dt.year) \o <<"-">> \o pad2(dt.month) \o <<"-">> \o pad2(dt.day)

\* strftime('%Y-%m-%d %H:%M:%S')
strftime_ymd_hms(dt) ==
    strftime_ymd(dt) \o <<" ">> \o pad2(dt.hour) \o <<":">> \o pad2(dt.minute)
                     \o <<":">> \o pad2(dt.second)

\* datetime.strptime(s, '%Y-%m-%d'): midnight of that date
strptime_ymd(s) ==
    [year |-> parse_int(SubSeq(s, 1, 4)), month |-> parse_int(SubSeq(s, 6, 7)),
     day |-> parse_int(SubSeq(s, 9, 10)), hour |-> 0, minute |-> 0, second |-> 0]

\* str.replace(old, new) for a one-character old: every occurrence is replaced
RECURSIVE replace(_, _, _)
replace(s, old, new) ==
    IF s = <<>> THEN <<>>
    ELSE (IF Head(s) = old THEN new ELSE <<Head(s)>>) \o replace(Tail(s), old, new)

\* datetime.fromisoformat('YYYY-MM-DDTHH:MM:SS+HH:MM'): the fields as written,
\* the offset kept aside as tzinfo (it does not shift the fields)
fromisoformat(s) ==
    [year |-> parse_int(SubSeq(s, 1, 4)), month |-> parse_int(SubSeq(s, 6, 7)),
     day |-> parse_int(SubSeq(s, 9, 10)), hour |-> parse_int(SubSeq(s, 12, 13)),
     minute |-> parse_int(SubSeq(s, 15, 16)), second |-> parse_int(SubSeq(s, 18, 19)),
     tzinfo |-> SubSeq(s, 20, Len(s))]

(***************************************************************************)
(* get_last_friday, is_after_date, get_team_repos                          *)
(***************************************************************************)
FRIDAY == 4

ROLLBACK_HOUR == 9

\* get_last_friday() mutated: the 9 o'clock rule dropped
get_last_friday_no_rollback(today) ==
    strftime_ymd(minus_days(today, (weekday(date_of(today)) - FRIDAY) % 7))

\* get_last_friday() mutated: Friday taken for weekday 5
get_last_friday_wrong_day(today) ==
    LET since == (weekday(date_of(today)) - 5) % 7
    IN  strftime_ymd(minus_days(today,
            IF since = 0 /\ today.hour < ROLLBACK_HOUR THEN 7 ELSE since))

\* get_last_friday() with datetime.now() passed in as today
get_last_friday(today) ==
    LET since              == (weekday(date_of(today)) - FRIDAY) % 7
        days_since_friday  == IF since = 0 /\ today.hour < ROLLBACK_HOUR THEN 7 ELSE since
        last_friday        == minus_days(today, days_since_friday)
    IN  strftime_ymd(last_friday)

\* is_after_date mutated: strictly after the cutoff date
is_after_date_strict(pr_date, cutoff_date) ==
    LET pr_datetime     == fromisoformat(replace(pr_date, "Z", <<"+", "0", "0", ":", "0", "0">>))
        cutoff_datetime == strptime_ymd(cutoff_date)
    IN  date_of(pr_datetime) # date_of(cutoff_datetime)
        /\ date_ge(date_of(pr_datetime), date_of(cutoff_datetime))

is_after_date(pr_date, cutoff_date) ==
    LET pr_datetime     == fromisoformat(replace(pr_date, "Z", <<"+", "0", "0", ":", "0", "0">>))
        cutoff_datetime == strptime_ymd(cutoff_date)
    IN  date_ge(date_of(pr_datetime), date_of(cutoff_datetime))

NUM_TEAMS == 22

IRREGULAR_TEAM == 17

\* one turn of either loop of get_team_repos
repo_entry(i, category) ==
    IF i = IRREGULAR_TEAM THEN <<"TEAM17_" \o category, category>>
    ELSE <<"Team" \o ToString(i) \o "_" \o category, category>>

\* for i in range(1, 23): repos.append(...), from i on
RECURSIVE append_teams(_, _, _)
append_teams(repos, i, category) ==
    IF i > NUM_TEAMS THEN repos
    ELSE append_teams(Append(repos, repo_entry(i, category)), i + 1, category)

\* get_team_repos mutated: FE and BE interleaved per team
RECURSIVE interleaved_teams(_, _)
interleaved_teams(repos, i) ==
    IF i > NUM_TEAMS THEN repos
    ELSE interleaved_teams(repos \o <<repo_entry(i, "FE"), repo_entry(i, "BE")>>, i + 1)

get_team_repos_interleaved == interleaved_teams(<<>>, 1)

get_team_repos == append_teams(append_teams(<<>>, 1, "FE"), 1, "BE")

(***************************************************************************)
(* The run: main() of the invoked process ("main") and of the process it   *)
(* starts at line 335 to capture the report ("sub").                       *)
(***************************************************************************)
VARIABLES
    analyze,             \* args.analyze of the invoked process
    now,                 \* the local clock, a datetime
    ticks,               \* hours the clock has advanced so far
    events,              \* gh pr list answers so far that were not a plain []
    pc,                  \* per process: the place in main()
    exit_code,           \* per process: -1 while running, then the exit status
    out,                 \* per process: the lines printed to stdout, in order
    checks,              \* per process: the gh precondition commands run and how they ended
    last_friday,         \* per process: the cutoff, text of '%Y-%m-%d' (<<>> before line 215)
    output_lines,        \* per process: the list of line 219
    idx,                 \* per process: position in get_team_repos() of the running loop
    prs,                 \* per process: the records of the inner loop still to be handled
    team_pr_count,       \* per process: team_pr_count / team_merged_count
    open_count,
    merged_count,
    open_prs_by_team,    \* per process: dict repo_name -> count
    merged_prs_by_team,
    queries,             \* per process: the (repo, state) pairs handed to gh pr list, in order
    last_query,          \* the latest run_gh_command call: who, what, and gh's answer
    claude_log,          \* the claude command lines run, in order
    call,                \* a function of the script applied on its own: its name and arguments
    ret                  \* and what it returned

vars == <<analyze, now, ticks, events, pc, exit_code, out, checks, last_friday,
          output_lines, idx, prs, team_pr_count, open_count, merged_count,
          open_prs_by_team, merged_prs_by_team, queries, last_query,
          claude_log, call, ret>>

Procs == {"main", "sub"}

\* bounds of the environment
MaxTicks == 1

MaxEvents == 2

\* the repositories that have pull requests or whose query can fail; every
\* other repository answers every query with an empty list
ActiveRepos == {"Team5_FE", "TEAM17_BE"}

ORG == "kakao-tech-campus-3rd-step3/"

dt(y, mo, d, h, mi, s) ==
    [year |-> y, month |-> mo, day |-> d, hour |-> h, minute |-> mi, second |-> s]

\* the moments a run may start at: a Friday before 9, a Sunday afternoon
StartTimes == {dt(2025, 9, 12, 8, 0, 0), dt(2025, 9, 7, 14, 0, 0)}

\* one hour later on the local clock
next_hour(t) ==
    IF t.hour < 23 THEN [t EXCEPT !.hour = t.hour + 1]
    ELSE [minus_days(t, -1) EXCEPT !.hour = 0]

\* what gh prints for updatedAt: UTC with a Z suffix
gh_timestamp(t) ==
    strftime_ymd(t) \o <<"T">> \o pad2(t.hour) \o <<":">> \o pad2(t.minute)
                    \o <<":">> \o pad2(t.second) \o <<"Z">>

gh_pr(number, head, state, updated) ==
    [number |-> number, title |-> "weekly", headRefName |-> head,
     state |-> state, updatedAt |-> gh_timestamp(updated)]

\* pull requests gh may report, by last update: the last second of a Thursday,
\* the first second of the Friday after it, the morning of the next Friday
PrStale(state) == gh_pr(1, "develop", state, dt(2025, 9, 4, 23, 59, 59))
PrEdge(state)  == gh_pr(2, "feature", state, dt(2025, 9, 5, 0, 0, 0))
PrFresh(state) == gh_pr(3, "develop", state, dt(2025, 9, 12, 10, 0, 0))

GhState(state) == IF state = "open" THEN "OPEN" ELSE "MERGED"

PrLists(state) ==
    LET s == GhState(state)
    IN  {<<PrEdge(s), PrStale(s)>>, <<PrFresh(s), PrEdge(s)>>}

\* a finished subprocess: exit status, whether stdout is JSON, the JSON value
Answer(rc, json, list) == [returncode |-> rc, valid_json |-> json, payload |-> list]

EmptyAnswer == Answer(0, TRUE, <<>>)

EventAnswers(state) ==
    {Answer(1, TRUE, <<>>), Answer(0, FALSE, <<>>)}
        \cup {Answer(0, TRUE, l) : l \in PrLists(state)}

\* gh's possible answers to gh pr list -R repo --state state
GhAnswers(repo_name, state) ==
    IF repo_name \in ActiveRepos /\ events < MaxEvents
    THEN {EmptyAnswer} \cup EventAnswers(state)
    ELSE {EmptyAnswer}

(***************************************************************************)
(* Printed lines.  A line is a tuple: a tag for the fixed text of the      *)
(* print statement, then the values formatted into it.                     *)
(***************************************************************************)
BLANK  == <<"">>
RULE60 == <<"rule60">>
RULE50 == <<"rule50">>

\* lines 225-229 (and the list of line 232)
header_lines(cutoff, current_time) ==
    <<RULE60, <<"title">>, <<"period", cutoff, current_time>>, RULE60, BLANK>>

\* lines 240-243, 261, 280-283, 302: the headings in front of each loop
section_heading(section, cutoff) ==
    CASE section = "open_fe"   -> <<<<"open_heading">>, RULE50, <<"fe_heading">>>>
      [] section = "open_be"   -> <<BLANK, <<"be_heading">>>>
      [] section = "merged_fe" -> <<BLANK, <<"merged_heading", cutoff>>, RULE50, <<"fe_heading">>>>
      [] section = "merged_be" -> <<BLANK, <<"be_heading">>>>

\* lines 322-329
summary_lines(n_open, n_merged) ==
    <<BLANK, RULE60, <<"summary_heading">>, RULE50, <<"open_total", n_open>>,
      <<"merged_total", n_merged>>, <<"total", n_open + n_merged>>, RULE60>>

\* lines 254 and 272
open_line(repo_name, pr) ==
    <<"pr", repo_name, pr.number, pr.title, pr.headRefName, "OPEN">>

\* lines 294-295 and 313-314
merged_line(repo_name, pr) ==
    LET merge_date == strftime_ymd(fromisoformat(
                          replace(pr.updatedAt, "Z", <<"+", "0", "0", ":", "0", "0">>)))
    IN  <<"pr", repo_name, pr.number, pr.title, pr.headRefName, "MERGED", merge_date>>

InSection(p) == pc[p] \in {"open_fe", "open_be", "merged_fe", "merged_be"}

section_type(section)  == IF section \in {"open_fe", "merged_fe"} THEN "FE" ELSE "BE"

section_state(section) == IF section \in {"open_fe", "open_be"} THEN "open" ELSE "merged"

next_section(section) ==
    CASE section = "open_fe"   -> "open_be"
      [] section = "open_be"   -> "merged_fe"
      [] section = "merged_fe" -> "merged_be"
      [] section = "merged_be" -> "summary"

(***************************************************************************)
(* check_gh_auth                                                           *)
(***************************************************************************)
\* how a started command ends: it is not found, or it runs to an exit status
\* with something or nothing on stdout
ToolRun(found, rc, empty) == [found |-> found, returncode |-> rc, stdout_empty |-> empty]

Missing     == ToolRun(FALSE, 127, TRUE)
ExitNonZero == ToolRun(TRUE, 1, TRUE)
Silent      == ToolRun(TRUE, 0, TRUE)
Ran         == ToolRun(TRUE, 0, FALSE)

\* lines 44-53 mutated: a gh that is not there only warns
gh_version_passes_lenient(run) == TRUE

\* lines 44-53: gh --version with check=True
gh_version_passes(run) == run.found /\ run.returncode = 0

\* lines 55-75: gh auth status
gh_auth_passes(run) == run.returncode = 0

\* lines 78-93: gh repo list ... --limit 1 with check=True, stdout stripped
gh_org_passes(run) == run.returncode = 0 /\ ~run.stdout_empty

(***************************************************************************)
(* run_gh_command and the body of the four loops                           *)
(***************************************************************************)
\* run_gh_command mutated: JSONDecodeError is not caught
run_gh_command_uncaught(answer) ==
    IF answer.returncode # 0 THEN [raised |-> FALSE, value |-> <<>>]
    ELSE IF ~answer.valid_json THEN [raised |-> TRUE, value |-> <<>>]
    ELSE [raised |-> FALSE, value |-> answer.payload]

\* lines 110-117: the parsed list, or [] on CalledProcessError / JSONDecodeError
run_gh_command(answer) ==
    IF answer.returncode # 0 THEN [raised |-> FALSE, value |-> <<>>]
    ELSE IF ~answer.valid_json THEN [raised |-> FALSE, value |-> <<>>]
    ELSE [raised |-> FALSE, value |-> answer.payload]

\* the body of the inner loop mutated: the counters move for every record
handle_pr_count_all(pr, cutoff, repo_name, state) ==
    IF is_after_date(pr.updatedAt, cutoff)
    THEN [lines |-> <<IF state = "open" THEN open_line(repo_name, pr)
                      ELSE merged_line(repo_name, pr)>>, count |-> 1, team |-> 1]
    ELSE [lines |-> <<>>, count |-> 1, team |-> 1]

\* the body of the inner loop mutated: no recency filter
handle_pr_unfiltered(pr, cutoff, repo_name, state) ==
    [lines |-> <<IF state = "open" THEN open_line(repo_name, pr)
                 ELSE merged_line(repo_name, pr)>>, count |-> 1, team |-> 1]

\* lines 253-256 (271-274, 293-297, 312-316): one pull request of the inner
\* loop: what is printed, and what is added to the running count and to the
\* team count
handle_pr(pr, cutoff, repo_name, state) ==
    IF is_after_date(pr.updatedAt, cutoff)
    THEN [lines |-> <<IF state = "open" THEN open_line(repo_name, pr)
                      ELSE merged_line(repo_name, pr)>>, count |-> 1, team |-> 1]
    ELSE [lines |-> <<>>, count |-> 0, team |-> 0]

\* lines 258-259 (276-277, 299-300, 318-319): the dict after one repository
record_team(by_team, repo_name, count) ==
    IF count > 0 THEN (repo_name :> count) @@ by_team ELSE by_team

(***************************************************************************)
(* The analysis path                                                       *)
(***************************************************************************)
\* line 332 for each process: only the invoked process can carry --analyze;
\* line 335 starts the other one with no arguments
args_analyze(p) == IF p = "main" THEN analyze ELSE FALSE

\* lines 147-151: check_claude_cli
check_claude_cli(run) == run.found /\ run.returncode = 0

\* lines 338 mutated: the text handed over is what this process printed itself
pr_output_own(own_stdout, result_stdout) == own_stdout

\* line 338: analyze_with_claude(result.stdout)
pr_output(own_stdout, result_stdout) == result_stdout

\* lines 173-186: the command line of the analysis tool
claude_cmd(text) == <<"claude", "-p", <<<<"prompt_head">>>> \o text \o <<<<"prompt_tail">>>>>>

\* what claude -p can do: exit 0, exit non-zero, or fail to start
ClaudeResults == {"ok", "nonzero", "exception"}

\* lines 189-202: what analyze_with_claude prints after the tool has run
claude_result_lines(result) ==
    CASE result = "ok"        -> <<<<"claude_stdout">>, RULE60>>
      [] result = "nonzero"   -> <<<<"claude_error">>, RULE60>>
      [] result = "exception" -> <<<<"analysis_exception">>, RULE60>>

\* the exit status of a process whose main() returns after the analysis step, mutated
exit_after_analysis_failing(ok) == IF ok THEN 0 ELSE 1

\* lines 337-343, 346: main() returns whatever the analysis step met
exit_after_analysis(ok) == 0

(***************************************************************************)
(* Initial state and actions                                               *)
(***************************************************************************)
NoQuery == [proc |-> "none", repo |-> "", state |-> "", answer |-> EmptyAnswer]

\* no function is applied on its own during a run of the script
NoCall == [fn |-> "none", today |-> dt(1, 1, 1, 0, 0, 0), updated |-> dt(1, 1, 1, 0, 0, 0),
           tz |-> <<>>, cutoff |-> <<1, 1, 1>>]

NoRet == [done |-> FALSE, value |-> <<>>]

Init ==
    /\ call = NoCall
    /\ ret = NoRet
    /\ analyze \in BOOLEAN
    /\ now \in StartTimes
    /\ ticks = 0
    /\ events = 0
    /\ pc = [p \in Procs |-> IF p = "main" THEN "gh_version" ELSE "idle"]
    /\ exit_code = [p \in Procs |-> -1]
    /\ out = [p \in Procs |-> <<>>]
    /\ checks = [p \in Procs |-> <<>>]
    /\ last_friday = [p \in Procs |-> <<>>]
    /\ output_lines = [p \in Procs |-> <<>>]
    /\ idx = [p \in Procs |-> 0]
    /\ prs = [p \in Procs |-> <<>>]
    /\ team_pr_count = [p \in Procs |-> 0]
    /\ open_count = [p \in Procs |-> 0]
    /\ merged_count = [p \in Procs |-> 0]
    /\ open_prs_by_team = [p \in Procs |-> <<>>]
    /\ merged_prs_by_team = [p \in Procs |-> <<>>]
    /\ queries = [p \in Procs |-> <<>>]
    /\ last_query = NoQuery
    /\ claude_log = <<>>

\* the local clock moves on while the processes run; it is read at lines 215
\* and 216 only, so the time that has passed is taken just before a read
Tick ==
    /\ ticks < MaxTicks
    /\ \E p \in Procs : pc[p] \in {"cutoff", "header"}
    /\ now' = next_hour(now)
    /\ ticks' = ticks + 1
    /\ UNCHANGED <<call, ret, analyze, events, pc, exit_code, out, checks, last_friday,
                   output_lines, idx, prs, team_pr_count, open_count, merged_count,
                   open_prs_by_team, merged_prs_by_team, queries, last_query,
                   claude_log>>

\* sys.exit(code), or main() returning (code 0)
Exit(p, code, lines) ==
    /\ pc' = [pc EXCEPT ![p] = "exited"]
    /\ exit_code' = [exit_code EXCEPT ![p] = code]
    /\ out' = [out EXCEPT ![p] = @ \o lines]

\* lines 44-53
CheckGhVersion(p) ==
    /\ pc[p] = "gh_version"
    /\ \E run \in {Missing, ExitNonZero, Ran} :
          /\ checks' = [checks EXCEPT ![p] = Append(@, [cmd |-> "gh --version", run |-> run])]
          /\ IF gh_version_passes(run)
             THEN /\ pc' = [pc EXCEPT ![p] = "gh_auth"]
                  /\ UNCHANGED <<exit_code, out>>
             ELSE Exit(p, 1, <<<<"gh_not_installed">>>>)
    /\ UNCHANGED <<call, ret, analyze, now, ticks, events, last_friday, output_lines,
                   idx, prs, team_pr_count, open_count, merged_count, open_prs_by_team,
                   merged_prs_by_team, queries, last_query, claude_log>>

\* lines 55-75
CheckGhAuth(p) ==
    /\ pc[p] = "gh_auth"
    /\ \E run \in {ExitNonZero, Ran} :
          /\ checks' = [checks EXCEPT ![p] = Append(@, [cmd |-> "gh auth status", run |-> run])]
          /\ IF gh_auth_passes(run)
             THEN /\ pc' = [pc EXCEPT ![p] = "gh_org"]
                  /\ UNCHANGED <<exit_code, out>>
             ELSE Exit(p, 1, <<<<"gh_auth_problem">>>>)
    /\ UNCHANGED <<call, ret, analyze, now, ticks, events, last_friday, output_lines,
                   idx, prs, team_pr_count, open_count, merged_count, open_prs_by_team,
                   merged_prs_by_team, queries, last_query, claude_log>>

\* lines 77-95
CheckGhOrg(p) ==
    /\ pc[p] = "gh_org"
    /\ \E run \in {ExitNonZero, Silent, Ran} :
          /\ checks' = [checks EXCEPT ![p] = Append(@, [cmd |-> "gh repo list", run |-> run])]
          /\ IF gh_org_passes(run)
             THEN /\ pc' = [pc EXCEPT ![p] = "cutoff"]
                  /\ out' = [out EXCEPT ![p] = Append(@, <<"gh_ok">>)]
                  /\ UNCHANGED exit_code
             ELSE Exit(p, 1, <<<<"gh_no_org_access">>>>)
    /\ UNCHANGED <<call, ret, analyze, now, ticks, events, last_friday, output_lines,
                   idx, prs, team_pr_count, open_count, merged_count, open_prs_by_team,
                   merged_prs_by_team, queries, last_query, claude_log>>

\* lines 213-215
ComputeCutoff(p) ==
    /\ pc[p] = "cutoff"
    /\ out' = [out EXCEPT ![p] = Append(@, BLANK)]
    /\ last_friday' = [last_friday EXCEPT ![p] = get_last_friday(now)]
    /\ pc' = [pc EXCEPT ![p] = "header"]
    /\ UNCHANGED <<call, ret, analyze, now, ticks, events, exit_code, checks,
                   output_lines, idx, prs, team_pr_count, open_count, merged_count,
                   open_prs_by_team, merged_prs_by_team, queries, last_query,
                   claude_log>>

\* lines 216-243
PrintHeader(p) ==
    /\ pc[p] = "header"
    /\ LET current_time == strftime_ymd_hms(now)
           header == header_lines(last_friday[p], current_time)
       IN  /\ out' = [out EXCEPT ![p] =
                         @ \o header \o section_heading("open_fe", last_friday[p])]
           /\ output_lines' = [output_lines EXCEPT ![p] = header]
    /\ open_count' = [open_count EXCEPT ![p] = 0]
    /\ merged_count' = [merged_count EXCEPT ![p] = 0]
    /\ open_prs_by_team' = [open_prs_by_team EXCEPT ![p] = <<>>]
    /\ merged_prs_by_team' = [merged_prs_by_team EXCEPT ![p] = <<>>]
    /\ idx' = [idx EXCEPT ![p] = 1]
    /\ pc' = [pc EXCEPT ![p] = "open_fe"]
    /\ UNCHANGED <<call, ret, analyze, now, ticks, events, exit_code, checks,
                   last_friday, prs, team_pr_count, queries, last_query,
                   claude_log>>

\* the outer loop stands between two repositories
AtRepo(p) ==
    /\ InSection(p)
    /\ prs[p] = <<>>
    /\ idx[p] <= Len(get_team_repos)

\* lines 258-259 (276-277, 299-300, 318-319) and the step to the next
\* repository, in the primed variables that Query and HandlePr leave open
EndRepo(p, repo_name, state, count) ==
    /\ idx' = [idx EXCEPT ![p] = @ + 1]
    /\ IF state = "open"
       THEN /\ open_prs_by_team' = [open_prs_by_team EXCEPT ![p] =
                                       record_team(@, repo_name, count)]
            /\ UNCHANGED merged_prs_by_team
       ELSE /\ merged_prs_by_team' = [merged_prs_by_team EXCEPT ![p] =
                                         record_team(@, repo_name, count)]
            /\ UNCHANGED open_prs_by_team

\* lines 245-246 (263-264, 285-286, 304-305): continue
Skip(p) ==
    /\ AtRepo(p)
    /\ get_team_repos[idx[p]][2] # section_type(pc[p])
    /\ idx' = [idx EXCEPT ![p] = @ + 1]
    /\ UNCHANGED <<call, ret, analyze, now, ticks, events, pc, exit_code, out, checks,
                   last_friday, output_lines, prs, team_pr_count, open_count,
                   merged_count, open_prs_by_team, merged_prs_by_team, queries,
                   last_query, claude_log>>

\* lines 248-251 (266-269, 288-291, 307-310): one repository is queried; with
\* no record to handle the turn of the outer loop ends here (lines 258-259)
Query(p) ==
    /\ AtRepo(p)
    /\ get_team_repos[idx[p]][2] = section_type(pc[p])
    /\ LET repo_name == get_team_repos[idx[p]][1]
           full_repo == ORG \o repo_name
           state     == section_state(pc[p])
       IN  \E answer \in GhAnswers(repo_name, state) :
              LET got == run_gh_command(answer)
              IN  /\ queries' = [queries EXCEPT ![p] = Append(@, <<full_repo, state>>)]
                  /\ last_query' = [proc |-> p, repo |-> repo_name, state |-> state,
                                    answer |-> answer]
                  /\ events' = IF answer = EmptyAnswer THEN events ELSE events + 1
                  /\ IF got.raised
                     THEN \* an exception nobody catches ends the process
                          /\ Exit(p, 1, <<>>)
                          /\ UNCHANGED <<idx, prs, team_pr_count, open_prs_by_team,
                                         merged_prs_by_team>>
                     ELSE /\ prs' = [prs EXCEPT ![p] = got.value]
                          /\ team_pr_count' = [team_pr_count EXCEPT ![p] = 0]
                          /\ IF got.value = <<>>
                             THEN EndRepo(p, repo_name, state, 0)
                             ELSE UNCHANGED <<idx, open_prs_by_team, merged_prs_by_team>>
                          /\ UNCHANGED <<pc, exit_code, out>>
    /\ UNCHANGED <<call, ret, analyze, now, ticks, checks, last_friday, output_lines,
                   open_count, merged_count, claude_log>>

\* lines 252-256 (270-274, 292-297, 311-316): the next pull request of the
\* inner loop; after the last one the turn of the outer loop ends (lines 258-259)
HandlePr(p) ==
    /\ InSection(p)
    /\ prs[p] # <<>>
    /\ LET repo_name == get_team_repos[idx[p]][1]
           state     == section_state(pc[p])
           did       == handle_pr(Head(prs[p]), last_friday[p], repo_name, state)
           team      == team_pr_count[p] + did.team
       IN  /\ out' = [out EXCEPT ![p] = @ \o did.lines]
           /\ IF state = "open"
              THEN /\ open_count' = [open_count EXCEPT ![p] = @ + did.count]
                   /\ UNCHANGED merged_count
              ELSE /\ merged_count' = [merged_count EXCEPT ![p] = @ + did.count]
                   /\ UNCHANGED open_count
           /\ team_pr_count' = [team_pr_count EXCEPT ![p] = team]
           /\ prs' = [prs EXCEPT ![p] = Tail(@)]
           /\ IF Tail(prs[p]) = <<>>
              THEN EndRepo(p, repo_name, state, team)
              ELSE UNCHANGED <<idx, open_prs_by_team, merged_prs_by_team>>
    /\ UNCHANGED <<call, ret, analyze, now, ticks, events, pc, exit_code, checks,
                   last_friday, output_lines, queries, last_query, claude_log>>

\* lines 261-262, 279-284, 302-303: a loop has ended, the next one starts
EnterSection(p) ==
    /\ InSection(p)
    /\ pc[p] # "merged_be"
    /\ prs[p] = <<>>
    /\ idx[p] > Len(get_team_repos)
    /\ out' = [out EXCEPT ![p] = @ \o section_heading(next_section(pc[p]), last_friday[p])]
    /\ pc' = [pc EXCEPT ![p] = next_section(@)]
    /\ idx' = [idx EXCEPT ![p] = 1]
    /\ UNCHANGED <<call, ret, analyze, now, ticks, events, exit_code, checks,
                   last_friday, output_lines, prs, team_pr_count, open_count,
                   merged_count, open_prs_by_team, merged_prs_by_team, queries,
                   last_query, claude_log>>

\* lines 321-329
Summary(p) ==
    /\ pc[p] = "merged_be"
    /\ idx[p] > Len(get_team_repos)
    /\ out' = [out EXCEPT ![p] = @ \o summary_lines(open_count[p], merged_count[p])]
    /\ pc' = [pc EXCEPT ![p] = "summary"]
    /\ UNCHANGED <<call, ret, analyze, now, ticks, events, exit_code, checks,
                   last_friday, output_lines, idx, prs, team_pr_count, open_count,
                   merged_count, open_prs_by_team, merged_prs_by_team, queries,
                   last_query, claude_log>>

\* line 332 with the flag off: main() returns
Finish(p) ==
    /\ pc[p] = "summary"
    /\ ~args_analyze(p)
    /\ Exit(p, 0, <<>>)
    /\ UNCHANGED <<call, ret, analyze, now, ticks, events, checks, last_friday,
                   output_lines, idx, prs, team_pr_count, open_count, merged_count,
                   open_prs_by_team, merged_prs_by_team, queries, last_query,
                   claude_log>>

\* lines 332-336: the script is started again, without arguments
StartSub ==
    /\ pc["main"] = "summary"
    /\ args_analyze("main")
    /\ pc' = [pc EXCEPT !["main"] = "wait_sub", !["sub"] = "gh_version"]
    /\ UNCHANGED <<call, ret, analyze, now, ticks, events, exit_code, out, checks,
                   last_friday, output_lines, idx, prs, team_pr_count, open_count,
                   merged_count, open_prs_by_team, merged_prs_by_team, queries,
                   last_query, claude_log>>

\* lines 335, 342-343: the script could not be started
StartSubFails ==
    /\ pc["main"] = "summary"
    /\ args_analyze("main")
    /\ Exit("main", exit_after_analysis(FALSE), <<<<"prepare_error">>>>)
    /\ UNCHANGED <<call, ret, analyze, now, ticks, events, checks, last_friday,
                   output_lines, idx, prs, team_pr_count, open_count, merged_count,
                   open_prs_by_team, merged_prs_by_team, queries, last_query,
                   claude_log>>

\* lines 337-341 and 155-157: the started script has ended
SubReturns ==
    /\ pc["main"] = "wait_sub"
    /\ pc["sub"] = "exited"
    /\ IF exit_code["sub"] = 0
       THEN /\ out' = [out EXCEPT !["main"] = @ \o <<BLANK, <<"analysis_heading">>, RULE60>>]
            /\ pc' = [pc EXCEPT !["main"] = "claude_check"]
            /\ UNCHANGED exit_code
       ELSE Exit("main", exit_after_analysis(FALSE), <<<<"collect_error">>>>)
    /\ UNCHANGED <<call, ret, analyze, now, ticks, events, checks, last_friday,
                   output_lines, idx, prs, team_pr_count, open_count, merged_count,
                   open_prs_by_team, merged_prs_by_team, queries, last_query,
                   claude_log>>

\* lines 159-169
ClaudeCheck ==
    /\ pc["main"] = "claude_check"
    /\ \E run \in {Missing, ExitNonZero, Ran} :
          /\ claude_log' = Append(claude_log, <<"claude", "--version">>)
          /\ IF check_claude_cli(run)
             THEN /\ pc' = [pc EXCEPT !["main"] = "claude_run"]
                  /\ UNCHANGED <<exit_code, out>>
             ELSE Exit("main", exit_after_analysis(FALSE),
                       <<<<"claude_not_installed">>, RULE60>>)
    /\ UNCHANGED <<call, ret, analyze, now, ticks, events, checks, last_friday,
                   output_lines, idx, prs, team_pr_count, open_count, merged_count,
                   open_prs_by_team, merged_prs_by_team, queries, last_query>>

\* lines 171-202
ClaudeRun ==
    /\ pc["main"] = "claude_run"
    /\ \E result \in ClaudeResults :
          /\ claude_log' = Append(claude_log, claude_cmd(pr_output(out["main"], out["sub"])))
          /\ Exit("main", exit_after_analysis(result = "ok"), claude_result_lines(result))
    /\ UNCHANGED <<call, ret, analyze, now, ticks, events, checks, last_friday,
                   output_lines, idx, prs, team_pr_count, open_count, merged_count,
                   open_prs_by_team, merged_prs_by_team, queries, last_query>>

Step(p) ==
    \/ CheckGhVersion(p)
    \/ CheckGhAuth(p)
    \/ CheckGhOrg(p)
    \/ ComputeCutoff(p)
    \/ PrintHeader(p)
    \/ Skip(p)
    \/ Query(p)
    \/ HandlePr(p)
    \/ EnterSection(p)
    \/ Summary(p)
    \/ Finish(p)

Next ==
    \/ Tick
    \/ \E p \in Procs : Step(p)
    \/ StartSub
    \/ StartSubFails
    \/ SubReturns
    \/ ClaudeCheck
    \/ ClaudeRun

Spec == Init /\ [][Next]_vars

(***************************************************************************)
(* The functions on their own: get_last_friday for any moment,             *)
(* is_after_date for any timestamp and cutoff, get_team_repos.             *)
(***************************************************************************)
MaxDays == 14

\* n consecutive dates from base on
days_from(base, n) == {fromordinal(toordinal(base) + k) : k \in 0..(n - 1)}

\* around a month's end, a leap day and a year's end
Dates == days_from(<<2025, 8, 31>>, MaxDays) \cup days_from(<<2024, 2, 23>>, MaxDays)
             \cup days_from(<<2025, 12, 26>>, MaxDays)

Todays == {dt(d[1], d[2], d[3], h, ms, ms) : d \in Dates, h \in 0..23, ms \in {0, 59}}

TimesOfDay == {<<0, 0, 0>>, <<10, 0, 0>>, <<23, 59, 59>>}

\* the UTC suffix gh writes, and explicit offsets
Offsets == {<<"Z">>, <<"+", "0", "0", ":", "0", "0">>, <<"+", "0", "9", ":", "0", "0">>}

\* an ISO-8601 timestamp of the moment t with the offset text tz
iso_timestamp(t, tz) ==
    strftime_ymd(t) \o <<"T">> \o pad2(t.hour) \o <<":">> \o pad2(t.minute)
                    \o <<":">> \o pad2(t.second) \o tz

Calls ==
    {[NoCall EXCEPT !.fn = "get_last_friday", !.today = t] : t \in Todays}
    \cup {[NoCall EXCEPT !.fn = "is_after_date",
                         !.updated = dt(d[1], d[2], d[3], t[1], t[2], t[3]),
                         !.tz = z, !.cutoff = c] :
              d \in days_from(<<2025, 8, 31>>, MaxDays), t \in TimesOfDay, z \in Offsets,
              c \in days_from(<<2025, 8, 31>>, MaxDays)}
    \cup {[NoCall EXCEPT !.fn = "get_team_repos"]}

InitFn ==
    /\ call \in Calls
    /\ ret = NoRet
    /\ analyze = FALSE
    /\ now = dt(2025, 9, 12, 8, 0, 0)
    /\ ticks = 0
    /\ events = 0
    /\ pc = [p \in Procs |-> "idle"]
    /\ exit_code = [p \in Procs |-> -1]
    /\ out = [p \in Procs |-> <<>>]
    /\ checks = [p \in Procs |-> <<>>]
    /\ last_friday = [p \in Procs |-> <<>>]
    /\ output_lines = [p \in Procs |-> <<>>]
    /\ idx = [p \in Procs |-> 0]
    /\ prs = [p \in Procs |-> <<>>]
    /\ team_pr_count = [p \in Procs |-> 0]
    /\ open_count = [p \in Procs |-> 0]
    /\ merged_count = [p \in Procs |-> 0]
    /\ open_prs_by_team = [p \in Procs |-> <<>>]
    /\ merged_prs_by_team = [p \in Procs |-> <<>>]
    /\ queries = [p \in Procs |-> <<>>]
    /\ last_query = NoQuery
    /\ claude_log = <<>>

RunVars == <<analyze, now, ticks, events, pc, exit_code, out, checks, last_friday,
             output_lines, idx, prs, team_pr_count, open_count, merged_count,
             open_prs_by_team, merged_prs_by_team, queries, last_query,
             claude_log>>

CallGetLastFriday ==
    /\ call.fn = "get_last_friday"
    /\ ~ret.done
    /\ ret' = [done |-> TRUE, value |-> get_last_friday(call.today)]
    /\ UNCHANGED <<call, RunVars>>

CallIsAfterDate ==
    /\ call.fn = "is_after_date"
    /\ ~ret.done
    /\ ret' = [done |-> TRUE,
               value |-> is_after_date(iso_timestamp(call.updated, call.tz),
                                       strftime_ymd(dt(call.cutoff[1], call.cutoff[2],
                                                       call.cutoff[3], 0, 0, 0)))]
    /\ UNCHANGED <<call, RunVars>>

CallGetTeamRepos ==
    /\ call.fn = "get_team_repos"
    /\ ~ret.done
    /\ ret' = [done |-> TRUE, value |-> get_team_repos]
    /\ UNCHANGED <<call, RunVars>>

NextFn == CallGetLastFriday \/ CallIsAfterDate \/ CallGetTeamRepos

SpecFn == InitFn /\ [][NextFn]_vars

(***************************************************************************)
(* Properties of the functions (checked under SpecFn)                      *)
(***************************************************************************)
\* 2025-09-12 is a Friday; so is every date a whole number of weeks from it
IsFriday(d) == (toordinal(d) - toordinal(<<2025, 9, 12>>)) % 7 = 0

Returned(fn) == call.fn = fn /\ ret.done

\* the date a returned cutoff text stands for
CutoffDate(text) == date_of(strptime_ymd(text))

\* C1: get_last_friday on a Friday returns that day when the local hour is
\* >= 9 and the day seven days earlier when the hour is < 9; Friday
\* 2025-09-12 09:00 gives 2025-09-12 and Friday 2025-09-12 08:00 gives 2025-09-05.
C1_FridayRule ==
    Returned("get_last_friday") /\ IsFriday(date_of(call.today)) =>
        /\ call.today.hour >= 9 => CutoffDate(ret.value) = date_of(call.today)
        /\ call.today.hour < 9 =>
               toordinal(CutoffDate(ret.value)) = toordinal(date_of(call.today)) - 7
        /\ call.today = dt(2025, 9, 12, 9, 0, 0) =>
               ret.value = <<"2", "0", "2", "5", "-", "0", "9", "-", "1", "2">>
        /\ call.today = dt(2025, 9, 12, 8, 0, 0) =>
               ret.value = <<"2", "0", "2", "5", "-", "0", "9", "-", "0", "5">>

C1_Witness ==
    /\ Returned("get_last_friday")
    /\ call.today = dt(2025, 9, 12, 8, 59, 59)
    /\ CutoffDate(ret.value) = <<2025, 9, 5>>

\* C2: get_last_friday on a day that is not a Friday returns, at every hour,
\* the latest Friday before that day (1 to 6 days back); on any day and hour
\* the cutoff is a Friday.
C2_PriorFriday ==
    Returned("get_last_friday") =>
        /\ IsFriday(CutoffDate(ret.value))
        /\ ~IsFriday(date_of(call.today)) =>
               /\ toordinal(CutoffDate(ret.value)) < toordinal(date_of(call.today))
               /\ toordinal(date_of(call.today)) - toordinal(CutoffDate(ret.value)) <= 6

C2_Witness ==
    /\ Returned("get_last_friday")
    /\ call.today = dt(2025, 9, 7, 14, 0, 0)
    /\ ret.value = <<"2", "0", "2", "5", "-", "0", "9", "-", "0", "5">>

ExpectedFE ==
    <<"Team1_FE", "Team2_FE", "Team3_FE", "Team4_FE", "Team5_FE", "Team6_FE",
      "Team7_FE", "Team8_FE", "Team9_FE", "Team10_FE", "Team11_FE", "Team12_FE",
      "Team13_FE", "Team14_FE", "Team15_FE", "Team16_FE", "TEAM17_FE", "Team18_FE",
      "Team19_FE", "Team20_FE", "Team21_FE", "Team22_FE">>

ExpectedBE ==
    <<"Team1_BE", "Team2_BE", "Team3_BE", "Team4_BE", "Team5_BE", "Team6_BE",
      "Team7_BE", "Team8_BE", "Team9_BE", "Team10_BE", "Team11_BE", "Team12_BE",
      "Team13_BE", "Team14_BE", "Team15_BE", "Team16_BE", "TEAM17_BE", "Team18_BE",
      "Team19_BE", "Team20_BE", "Team21_BE", "Team22_BE">>

\* C3: get_team_repos returns exactly 44 (name, category) pairs: the FE
\* entries of teams 1..22 in increasing order, then the BE entries of teams
\* 1..22 in increasing order, team 17 named TEAM17_FE / TEAM17_BE and every
\* other team i named Team{i}_FE / Team{i}_BE; no name occurs twice.
C3_Roster ==
    Returned("get_team_repos") =>
        /\ Len(ret.value) = 44
        /\ \A i \in 1..22 : /\ ret.value[i] = <<ExpectedFE[i], "FE">>
                            /\ ret.value[22 + i] = <<ExpectedBE[i], "BE">>
        /\ \A i, j \in 1..Len(ret.value) : i # j => ret.value[i][1] # ret.value[j][1]

C3_Witness ==
    /\ Returned("get_team_repos")
    /\ ret.value[17] = <<"TEAM17_FE", "FE">>
    /\ ret.value[23] = <<"Team1_BE", "BE">>

\* C4: is_after_date is true exactly when the calendar date written in the
\* timestamp (a trailing Z read as +00:00) is on or after the cutoff date,
\* whatever the time of day: 00:00:00 on the cutoff date is accepted and
\* 23:59:59 on the day before is rejected.
C4_DateOnly ==
    Returned("is_after_date") =>
        ret.value = (toordinal(date_of(call.updated)) >= toordinal(call.cutoff))

C4_Witness ==
    /\ Returned("is_after_date")
    /\ call.tz = <<"Z">>
    /\ call.updated = dt(2025, 9, 5, 0, 0, 0)
    /\ call.cutoff = <<2025, 9, 5>>
    /\ ret.value = TRUE

(***************************************************************************)
(* Properties of the run (checked under Spec)                              *)
(***************************************************************************)
\* the number of printed pull-request lines that carry the given status
PrLines(lines, status) ==
    Cardinality({i \in 1..Len(lines) : lines[i][1] = "pr" /\ lines[i][6] = status})

\* the sum of the values of a dict
RECURSIVE SumValues(_)
SumValues(d) ==
    IF DOMAIN d = {} THEN 0
    ELSE LET k == CHOOSE x \in DOMAIN d : TRUE
         IN  d[k] + SumValues([x \in DOMAIN d \ {k} |-> d[x]])

\* the lines a process has printed since the state the step started in
NewLines(p) == SubSeq(out'[p], Len(out[p]) + 1, Len(out'[p]))

\* the headings and totals of a sequence of lines, in order
RECURSIVE Skeleton(_)
Skeleton(lines) ==
    IF lines = <<>> THEN <<>>
    ELSE (IF Head(lines)[1] \in {"open_heading", "merged_heading", "fe_heading",
                                 "be_heading", "summary_heading", "open_total",
                                 "merged_total", "total"}
          THEN <<Head(lines)[1]>> ELSE <<>>) \o Skeleton(Tail(lines))

\* all four sections and the summary have been printed
ReportComplete(lines) ==
    Skeleton(lines) = <<"open_heading", "fe_heading", "be_heading", "merged_heading",
                        "fe_heading", "be_heading", "summary_heading", "open_total",
                        "merged_total", "total">>

\* the printed text up to the closing rule of the summary
ReportText(lines) ==
    IF \E i \in 1..Len(lines) : lines[i][1] = "total"
    THEN SubSeq(lines, 1, 1 + CHOOSE i \in 1..Len(lines) : lines[i][1] = "total")
    ELSE <<>>

\* the lines that only a precondition failure prints
ErrorTags == {"gh_not_installed", "gh_auth_problem", "gh_no_org_access"}

CheckOrder == <<"gh --version", "gh auth status", "gh repo list">>

\* a precondition command ended the way the claim calls a failure
PreconditionFails(c) ==
    \/ c.cmd = "gh --version" /\ ~c.run.found
    \/ c.cmd = "gh auth status" /\ c.run.returncode # 0
    \/ c.cmd = "gh repo list" /\ (c.run.returncode # 0 \/ c.run.stdout_empty)

\* all three precondition commands ran and none failed
Passed(p) ==
    /\ Len(checks[p]) = 3
    /\ \A i \in 1..3 : checks[p][i].run = Ran

\* the (repository, state) pairs of a whole report, in the order of the loops
AllQueries ==
    [k \in 1..88 |->
        LET i == ((k - 1) % 22) + 1
            names == IF ((k - 1) \div 22) % 2 = 0 THEN ExpectedFE ELSE ExpectedBE
        IN  <<"kakao-tech-campus-3rd-step3/" \o names[i],
              IF k <= 44 THEN "open" ELSE "merged">>]

QueryFailed(answer) == answer.returncode # 0 \/ ~answer.valid_json

\* C5: a query that exits non-zero or returns invalid JSON yields no record:
\* the step prints nothing, moves no counter, and the loop goes on with the
\* next repository; the queries are issued in the order of the roster, and a
\* process that passed the precondition checks ends with exit status 0 after
\* all 88 queries and the summary, whichever queries failed.
C5_Absorbed ==
    /\ [](\A p \in Procs :
            /\ Len(queries[p]) <= 88
            /\ queries[p] = SubSeq(AllQueries, 1, Len(queries[p]))
            /\ (Passed(p) /\ pc[p] = "exited") =>
                   /\ exit_code[p] = 0
                   /\ queries[p] = AllQueries
                   /\ ReportComplete(out[p]))
    /\ [][\A p \in Procs :
            (queries'[p] # queries[p] /\ QueryFailed(last_query'.answer)) =>
                /\ out'[p] = out[p]
                /\ open_count'[p] = open_count[p]
                /\ merged_count'[p] = merged_count[p]
                /\ open_prs_by_team'[p] = open_prs_by_team[p]
                /\ merged_prs_by_team'[p] = merged_prs_by_team[p]
                /\ prs'[p] = <<>>
                /\ pc'[p] = pc[p]
                /\ idx'[p] = idx[p] + 1]_vars

C5_Witness ==
    /\ last_query.proc = "main"
    /\ last_query.repo = "Team5_FE"
    /\ last_query.state = "merged"
    /\ last_query.answer.returncode = 1
    /\ pc["main"] = "merged_fe"
    /\ get_team_repos[idx["main"]][1] = "Team6_FE"

\* C6: the precondition commands run in the order gh --version, gh auth
\* status, gh repo list; when gh is missing, or the auth status check fails,
\* or the listing fails or is empty, the process ends at once with a non-zero
\* exit status: no later check runs, no cutoff is computed, no query is
\* issued and nothing of the report is printed.
C6_PreconditionsFirst ==
    \A p \in Procs :
        /\ Len(checks[p]) <= 3
        /\ \A i \in 1..Len(checks[p]) :
              /\ checks[p][i].cmd = CheckOrder[i]
              /\ PreconditionFails(checks[p][i]) =>
                     /\ i = Len(checks[p])
                     /\ pc[p] = "exited"
                     /\ exit_code[p] > 0
                     /\ last_friday[p] = <<>>
                     /\ queries[p] = <<>>
                     /\ Len(out[p]) = 1
                     /\ out[p][1][1] \in ErrorTags
        /\ (\/ last_friday[p] # <<>>
            \/ queries[p] # <<>>
            \/ \E i \in 1..Len(out[p]) : out[p][i][1] \notin ErrorTags) => Passed(p)

C6_Witness ==
    /\ Len(checks["main"]) = 2
    /\ checks["main"][2].run = ExitNonZero
    /\ exit_code["main"] = 1

AfterSummary(p) == pc[p] \in {"summary", "wait_sub", "claude_check", "claude_run", "exited"}

\* C7: a process that passed the precondition checks ends with exit status 0
\* and with all four sections and the summary printed, with the analysis
\* flag off or on, whether the analysis tool is missing, exits non-zero or
\* succeeds; what is printed after the summary only follows the report and
\* changes none of its lines.
C7_AnalysisHarmless ==
    /\ [](\A p \in Procs :
            (Passed(p) /\ pc[p] = "exited") =>
                /\ exit_code[p] = 0
                /\ ReportComplete(out[p]))
    /\ [][\A p \in Procs :
            (Passed(p) /\ AfterSummary(p)) =>
                /\ ReportComplete(out[p])
                /\ SubSeq(out'[p], 1, Len(out[p])) = out[p]
                /\ ReportText(out'[p]) = ReportText(out[p])]_vars

C7_Witness ==
    /\ analyze
    /\ pc["main"] = "exited"
    /\ exit_code["main"] = 0
    /\ out["main"][Len(out["main"]) - 1] = <<"claude_error">>
    /\ ReportComplete(out["main"])

\* the text handed to claude -p, for each such command line run
PromptTexts == {claude_log[i][3] : i \in {j \in 1..Len(claude_log) : claude_log[j][2] = "-p"}}

Prompt(text) == <<<<"prompt_head">>>> \o text \o <<<<"prompt_tail">>>>

\* C8 as claimed: with the analysis flag set the analysis tool is invoked
\* only after the report of this run has been printed through the summary,
\* and the text embedded in the prompt is that report text; without the flag
\* the tool is never invoked.
C8_PromptIsThisReport ==
    /\ ~analyze => claude_log = <<>>
    /\ claude_log # <<>> => ReportComplete(out["main"])
    /\ \A text \in PromptTexts : text = Prompt(ReportText(out["main"]))

\* C8 amended: with the analysis flag set the analysis tool is invoked only
\* after the report of this run has been printed through the summary and
\* only after a second run of the script, started after that summary without
\* the flag, has ended with exit status 0; the text embedded in the prompt is
\* the whole standard output of that second run (its own precondition line,
\* cutoff, timestamp and query results); without the flag neither the second
\* run nor the analysis tool is started.
C8_PromptIsSecondRun ==
    /\ ~analyze => (claude_log = <<>> /\ pc["sub"] = "idle")
    /\ pc["sub"] # "idle" => (analyze /\ AfterSummary("main") /\ ReportComplete(out["main"]))
    /\ claude_log # <<>> =>
           /\ ReportComplete(out["main"])
           /\ pc["sub"] = "exited"
           /\ exit_code["sub"] = 0
           /\ ReportComplete(out["sub"])
    /\ \A text \in PromptTexts : text = Prompt(out["sub"])

C8_Witness ==
    /\ analyze
    /\ pc["main"] = "exited"
    /\ PromptTexts = {Prompt(out["sub"])}
    /\ out["sub"] # ReportText(out["main"])
    /\ last_friday["sub"] # last_friday["main"]

\* the calendar date written at the front of a timestamp
WrittenDate(stamp) == CutoffDate(SubSeq(stamp, 1, 10))

\* C9: the cutoff of a run is computed once and never changes afterwards,
\* however the clock moves; a pull request handled by any of the four loops
\* is printed (once, under its repository and status) exactly when the date
\* of its last update is on or after that cutoff, OPEN ones included; every
\* record a query returns is handled, and nothing else prints an entry.
C9_OneCutoff ==
    [][\A p \in Procs :
         /\ last_friday[p] # <<>> => last_friday'[p] = last_friday[p]
         /\ (queries'[p] # queries[p] /\ ~QueryFailed(last_query'.answer)) =>
                \/ prs'[p] = last_query'.answer.payload
                \/ last_query'.answer.payload = <<>>
         /\ idx'[p] # idx[p] => prs'[p] = <<>>
         /\ IF prs[p] # <<>> /\ prs'[p] # prs[p]
            THEN LET pr == Head(prs[p])
                 IN  /\ prs'[p] = Tail(prs[p])
                     /\ IF toordinal(WrittenDate(pr.updatedAt))
                               >= toordinal(CutoffDate(last_friday[p]))
                        THEN /\ Len(NewLines(p)) = 1
                             /\ NewLines(p)[1][1] = "pr"
                             /\ NewLines(p)[1][2] = get_team_repos[idx[p]][1]
                             /\ NewLines(p)[1][3] = pr.number
                             /\ NewLines(p)[1][6] = GhState(section_state(pc[p]))
                        ELSE NewLines(p) = <<>>
            ELSE \A i \in 1..Len(NewLines(p)) : NewLines(p)[i][1] # "pr"]_vars

C9_Witness ==
    /\ last_friday["main"] = <<"2", "0", "2", "5", "-", "0", "9", "-", "0", "5">>
    /\ now = dt(2025, 9, 12, 9, 0, 0)
    /\ pc["main"] = "merged_be"
    /\ PrLines(out["main"], "OPEN") = 1
    /\ PrLines(out["main"], "MERGED") = 1

\* the team count that has not reached the dict yet
Pending(p, state) ==
    IF InSection(p) /\ prs[p] # <<>> /\ section_state(pc[p]) = state
    THEN team_pr_count[p] ELSE 0

\* no (repository, state) pair occurs twice among the queries of a process
QueriesDistinct(p) ==
    Cardinality({queries[p][i] : i \in 1..Len(queries[p])}) = Len(queries[p])

TotalsPrinted(p) ==
    \A i \in 1..Len(out[p]) :
        /\ out[p][i][1] = "open_total" => out[p][i][2] = open_count[p]
        /\ out[p][i][1] = "merged_total" => out[p][i][2] = merged_count[p]
        /\ out[p][i][1] = "total" => out[p][i][2] = open_count[p] + merged_count[p]

\* C10 as claimed: at every point of the run open_count is the number of
\* OPEN entries printed and the sum of the values of open_prs_by_team,
\* merged_count likewise; a repository is a key only with a count >= 1; the
\* summary total is open_count + merged_count; no pair is queried twice.
C10_CountersEverywhere ==
    \A p \in Procs :
        /\ open_count[p] = PrLines(out[p], "OPEN")
        /\ open_count[p] = SumValues(open_prs_by_team[p])
        /\ merged_count[p] = PrLines(out[p], "MERGED")
        /\ merged_count[p] = SumValues(merged_prs_by_team[p])
        /\ \A k \in DOMAIN open_prs_by_team[p] : open_prs_by_team[p][k] >= 1
        /\ \A k \in DOMAIN merged_prs_by_team[p] : merged_prs_by_team[p][k] >= 1
        /\ TotalsPrinted(p)
        /\ QueriesDistinct(p)

\* C10 amended: after every pull request handled, open_count is the number
\* of OPEN entries printed and merged_count the number of MERGED entries
\* printed; each equals the sum of the values of its per-team dict once the
\* repository in hand is finished, and that sum plus the running team count
\* while the records of a repository are being handled; a repository is a
\* key only with a count >= 1; the summary total is open_count +
\* merged_count; no pair is queried twice in one report.
C10_CountersBetweenRepos ==
    \A p \in Procs :
        /\ open_count[p] = PrLines(out[p], "OPEN")
        /\ open_count[p] = SumValues(open_prs_by_team[p]) + Pending(p, "open")
        /\ merged_count[p] = PrLines(out[p], "MERGED")
        /\ merged_count[p] = SumValues(merged_prs_by_team[p]) + Pending(p, "merged")
        /\ \A k \in DOMAIN open_prs_by_team[p] : open_prs_by_team[p][k] >= 1
        /\ \A k \in DOMAIN merged_prs_by_team[p] : merged_prs_by_team[p][k] >= 1
        /\ TotalsPrinted(p)
        /\ QueriesDistinct(p)

C10_Witness ==
    /\ pc["main"] = "open_fe"
    /\ prs["main"] # <<>>
    /\ team_pr_count["main"] = 1
    /\ open_count["main"] = 1
    /\ SumValues(open_prs_by_team["main"]) = 0

=============================================================================
